---- MODULE Spec2Model ----
(***************************************************************************)
(* Real-time telemetry broadcast layer of AiCostObserve (server/routes.ts  *)
(* and the client hook use-websocket-logs): the signed socket token codec, *)
(* the wsClients registry, the /ws gateway handshake and the broadcast     *)
(* done by POST /api/telemetry/ingest.                                     *)
(*                                                                         *)
(* Node runs every handler to completion on one thread, so every handler   *)
(* (or every stretch of a handler between two awaits) is one action.       *)
(***************************************************************************)
EXTENDS Integers, Sequences, FiniteSets, TLC

\* ------------------------------------------------------------------ bounds
MaxMessages == 2     \* client messages handled, over all connections
MaxLogs == 1         \* telemetry records persisted
MaxRequests == 2     \* ingest requests that reach storage, overlapping ones
MaxEarly == 0        \* clock points next to the epoch and next to expiry
MaxRuns == 3         \* runs of the effect of one useWebSocketLogs instance
MaxCached == 1       \* records the client's query cache is seen to take

\* --------------------------------------------------------------- constants
TOKEN_EXPIRY == 24 * 60 * 60 * 1000
SOCKET_SECRET == "default-socket-secret"
\* a key that is not the server's: what a client can sign with
AttackerKey == "client-chosen-key"

Workspaces == {"W1", "W2"}
\* the transport connections the gateway accepts, in this order
Conns == {1, 2}

\* Date.now() is read as an offset from the start of the run.  The clock
\* visits the instants around the issue time and around issue time + 24 h.
Times == (0..MaxEarly) \cup {TOKEN_EXPIRY + d : d \in (-1)..(MaxEarly + 1)}
Exps == {t + TOKEN_EXPIRY : t \in Times}

\* ------------------------------------------------------------ JS values
\* A JavaScript value as far as the codec looks at it: its type tag and its
\* printed form.
JsStr(s) == [t |-> "string", v |-> s]
JsNum(s) == [t |-> "number", v |-> s]
JsUndefined == [t |-> "undefined", v |-> ""]
JsObject == [t |-> "object", v |-> "{}"]

\* ToBoolean of a JS value
Truthy(j) ==
  CASE j.t = "string" -> j.v # ""
    [] j.t = "number" -> j.v # "0"
    [] j.t = "undefined" -> FALSE
    [] OTHER -> TRUE

\* ---------------------------------------------------------- serialisation
\* JSON.stringify({workspaceId, exp})
StringifyPayload(workspaceId, exp) ==
  "{\"workspaceId\":\"" \o workspaceId \o "\",\"exp\":" \o ToString(exp) \o "}"

\* createHmac("sha256", key).update(data).digest("hex"): the digest is kept
\* symbolic, one digest per (key, data), which is what HMAC-SHA256 gives up
\* to a negligible collision probability.
Hmac(key, data) == "hmac-sha256<" \o key \o ">(" \o data \o ")"

\* JSON.stringify({data, signature}) for two strings; '...' stands for the
\* quoted data string with its inner quotes escaped
StringifyEnvelope(data, signature) ==
  "{\"data\":'" \o data \o "',\"signature\":\"" \o signature \o "\"}"

\* Buffer.from(text).toString("base64")
Base64(text) == "base64:" \o text

\* The texts of the model.  A payload names a workspace and an expiry; a data
\* string is a payload text or a text that is not JSON.
NotJsonText == "not json"
PayloadTexts == {StringifyPayload(w, e) : w \in Workspaces, e \in Exps}
DataTexts == PayloadTexts \cup {NotJsonText}
SignatureTexts ==
  {Hmac(k, d) : k \in {SOCKET_SECRET, AttackerKey}, d \in DataTexts}
    \cup {"deadbeef"}

\* what JSON.parse yields for each text that is JSON: for an object its data
\* and signature properties (undefined when absent), and whether the value is
\* null (destructuring null throws).
JsonTable ==
  {[text |-> StringifyEnvelope(d, s), isNull |-> FALSE,
    data |-> JsStr(d), signature |-> JsStr(s)] :
      d \in DataTexts, s \in SignatureTexts}
  \cup
  {[text |-> "5", isNull |-> FALSE, data |-> JsUndefined, signature |-> JsUndefined],
   [text |-> "null", isNull |-> TRUE, data |-> JsUndefined, signature |-> JsUndefined],
   [text |-> "{}", isNull |-> FALSE, data |-> JsUndefined, signature |-> JsUndefined],
   [text |-> "{\"data\":'x'}", isNull |-> FALSE, data |-> JsStr("x"),
    signature |-> JsUndefined],
   [text |-> "{\"signature\":\"deadbeef\"}", isNull |-> FALSE, data |-> JsUndefined,
    signature |-> JsStr("deadbeef")],
   [text |-> "{\"data\":5,\"signature\":\"deadbeef\"}", isNull |-> FALSE,
    data |-> JsNum("5"), signature |-> JsStr("deadbeef")]}

JsonTexts == {e.text : e \in JsonTable}

\* JSON.parse of an envelope text: ok = FALSE stands for the SyntaxError
ParseEnvelope(text) ==
  IF text \in JsonTexts
    THEN LET e == CHOOSE e \in JsonTable : e.text = text
         IN [ok |-> TRUE, isNull |-> e.isNull, data |-> e.data,
             signature |-> e.signature]
    ELSE [ok |-> FALSE, isNull |-> FALSE, data |-> JsUndefined,
          signature |-> JsUndefined]

\* the payload each payload text denotes
PayloadTable ==
  {[text |-> StringifyPayload(w, e), workspaceId |-> w, exp |-> e] :
     w \in Workspaces, e \in Exps}

\* JSON.parse of a data string: the payload object it denotes
ParsePayload(data) ==
  IF data \in PayloadTexts
    THEN LET p == CHOOSE p \in PayloadTable : p.text = data
         IN [ok |-> TRUE, workspaceId |-> p.workspaceId, exp |-> p.exp]
    ELSE [ok |-> FALSE, workspaceId |-> "", exp |-> 0]

\* Buffer.from(s, "base64").toString(): never fails on a string; a string
\* that is not the base64 form of a text of the model decodes to bytes that
\* are no JSON text.
Base64Table == {[b64 |-> Base64(x), text |-> x] : x \in JsonTexts \cup {NotJsonText}}
Base64Strings == {e.b64 : e \in Base64Table}
Base64Decode(s) ==
  IF s \in Base64Strings
    THEN (CHOOSE e \in Base64Table : e.b64 = s).text
    ELSE "\\uFFFD"

\* ------------------------------------------------------------ token codec
\* generateSocketToken(workspaceId) called when Date.now() = at
generateSocketToken(workspaceId, at) ==
  LET data == StringifyPayload(workspaceId, at + TOKEN_EXPIRY)
      signature == Hmac(SOCKET_SECRET, data)
  IN Base64(StringifyEnvelope(data, signature))

\* results of validateSocketToken; workspaceId "" stands for undefined, and
\* threw for an exception leaving the function
Invalid == [threw |-> FALSE, valid |-> FALSE, workspaceId |-> ""]
Thrown == [threw |-> TRUE, valid |-> FALSE, workspaceId |-> ""]
Valid(workspaceId) == [threw |-> FALSE, valid |-> TRUE, workspaceId |-> workspaceId]

\* mutant: the signature is not compared
SignatureUnchecked(decoded) == TRUE

\* signature === expectedSignature, the digest recomputed over data
SignatureMatches(decoded) ==
  decoded.signature = JsStr(Hmac(SOCKET_SECRET, decoded.data.v))

\* mutant: the token is refused one millisecond before it expires
ExpiredTooEarly(payload, at) == payload.exp <= at + 1

\* payload.exp < Date.now()
Expired(payload, at) == payload.exp < at

\* the body of the try block of validateSocketToken
ValidateTry(token, at) ==
  IF token.t # "string" THEN Thrown        \* Buffer.from(non-string): TypeError
  ELSE LET decoded == ParseEnvelope(Base64Decode(token.v)) IN
    IF ~decoded.ok THEN Thrown             \* JSON.parse: SyntaxError
    ELSE IF decoded.isNull THEN Thrown     \* destructuring null: TypeError
    ELSE IF decoded.data.t # "string" THEN Thrown   \* hmac.update(non-string)
    ELSE IF ~SignatureMatches(decoded) THEN Invalid
    ELSE LET payload == ParsePayload(decoded.data.v) IN
      IF ~payload.ok THEN Thrown           \* JSON.parse(data): SyntaxError
      ELSE IF Expired(payload, at) THEN Invalid
      ELSE Valid(payload.workspaceId)

\* mutant: no catch around the body
validateSocketTokenNoCatch(token, at) == ValidateTry(token, at)

\* validateSocketToken(token) called when Date.now() = at
validateSocketToken(token, at) ==
  LET r == ValidateTry(token, at)
  IN IF r.threw THEN Invalid ELSE r

\* ---------------------------------------------------------------- storage
\* the api_keys rows: each key belongs to one workspace
ApiKeys == {"key-W1", "key-W2"}

\* what a request can carry in x-api-key ("" stands for no header)
ApiKeyHeaders == ApiKeys \cup {"", "bogus"}

\* storage.getApiKeyByKey(key).workspaceId, "" when there is no such row
getApiKeyByKey(apiKey) ==
  CASE apiKey = "key-W1" -> "W1"
    [] apiKey = "key-W2" -> "W2"
    [] OTHER -> ""

\* storage.getWorkspace(id) finds a row
getWorkspace(id) == id \in Workspaces

\* validateApiKey: the status it answers with, 0 when it calls next()
validateApiKey(apiKey) ==
  IF apiKey = "" THEN 401
  ELSE IF getApiKeyByKey(apiKey) = "" THEN 401
  ELSE 0

\* ------------------------------------------------------------------ state
VARIABLES
  now,         \* Date.now()
  checked,     \* the latest application of validateSocketToken on its own
  readyState,  \* ws.readyState of each connection; "NONE" before it is accepted
  receiving,   \* the socket still delivers "message" events
  client,      \* the closure variable client of each connection: 0 is null
  wsClients,   \* the registry: a set of WebSocketClient objects
  sent,        \* the messages each connection was sent, in order
  hist,        \* what each connection has asked for so far
  logs,        \* the telemetry_logs rows, in insertion order
  pending,     \* the ingest requests awaiting storage.createTelemetryLog
  resp,        \* the latest HTTP response
  gone,        \* the close or the error handler of the connection has run
  hook         \* one useWebSocketLogs instance in a browser: see NoHook

vars == <<now, checked, readyState, receiving, client, wsClients,
          sent, hist, logs, pending, resp, gone, hook>>

\* server -> client messages
Connected == [type |-> "connected"]
Subscribed(workspaceId) == [type |-> "subscribed", workspaceId |-> workspaceId]
ErrorMsg == [type |-> "error"]
\* mutant: the message carries the record without the id storage gave it
NewLogWithoutId(log) == [type |-> "new_log", data |-> [log EXCEPT !.id = 0]]

\* JSON.stringify({ type: "new_log", data: log })
NewLog(log) == [type |-> "new_log", data |-> log]

\* HTTP responses: route and request (the x-api-key header, the :workspaceId
\* of the path), and status and body (token of { token }, log of the record)
NoLog == [id |-> 0, workspaceId |-> "", model |-> ""]
Response(route, apiKey, workspaceId, status, token, log) ==
  [route |-> route, apiKey |-> apiKey, workspaceId |-> workspaceId,
   status |-> status, token |-> token, log |-> log]
NoResponse == Response("", "", "", 0, "", NoLog)

NoCheck == [token |-> JsUndefined, at |-> 0, result |-> Invalid, applied |-> FALSE]

\* handled: client messages handled; subscribeSeen: one of them had type
\* subscribe; rejected: the handler answered error and called close;
\* presented: the workspaces of the issued tokens the connection presented
NoHist == [handled |-> 0, subscribeSeen |-> FALSE, rejected |-> FALSE,
           presented |-> {}]

\* ------------------------------------------------------- the client hook
\* the runs of the effect of one hook instance
Runs == 1..MaxRuns

\* the workspaceId prop: "" stands for undefined, W3 is a workspace the
\* browser holds no API key for
ClientWorkspaces == Workspaces \cup {"", "W3"}

\* localStorage.getItem(`apiKey_${workspaceId}`): "" stands for null
localStorage(workspaceId) ==
  CASE workspaceId = "W1" -> "key-W1"
    [] workspaceId = "W2" -> "key-W2"
    [] OTHER -> ""

\* what the socket of the client can receive: text that is no JSON, and
\* messages by type, data telling whether message.data is truthy
ServerFrames ==
  {[json |-> FALSE, type |-> "", data |-> FALSE]}
  \cup {[json |-> TRUE, type |-> t, data |-> FALSE] :
          t \in {"connected", "subscribed", "error", "new_log"}}
  \cup {[json |-> TRUE, type |-> "new_log", data |-> TRUE]}

\* One useWebSocketLogs instance.  component: the life of the component that
\* calls the hook; workspaceId, enabled: the dependencies of the effect as of
\* its latest run; run: the number of that run; mounted[r]: the closure
\* variable mounted of run r; fetch[r]: where connectWebSocket of run r
\* stands; attempts[r]: the token requests run r has made; ws[r]: readyState
\* of the WebSocket run r created; subscribeSent[r], subscribed[r]: what that
\* socket has sent and received; wsRef: the run whose socket wsRef.current
\* is, 0 for null; isConnected: the state the hook returns; cached: the
\* records prepended to the query cache.
NoHook ==
  [component |-> "new", workspaceId |-> "", enabled |-> FALSE, run |-> 0,
   mounted |-> [r \in Runs |-> FALSE],
   fetch |-> [r \in Runs |-> "none"],
   attempts |-> [r \in Runs |-> 0],
   ws |-> [r \in Runs |-> "NONE"],
   subscribeSent |-> [r \in Runs |-> FALSE],
   subscribed |-> [r \in Runs |-> FALSE],
   wsRef |-> 0, isConnected |-> FALSE, cached |-> 0]

Init ==
  /\ hook = NoHook
  /\ now = 0
  /\ checked = NoCheck
  /\ readyState = [c \in Conns |-> "NONE"]
  /\ receiving = [c \in Conns |-> FALSE]
  /\ client = [c \in Conns |-> 0]
  /\ wsClients = {}
  /\ sent = [c \in Conns |-> <<>>]
  /\ hist = [c \in Conns |-> NoHist]
  /\ logs = <<>>
  /\ pending = <<>>
  /\ resp = NoResponse
  /\ gone = [c \in Conns |-> FALSE]

\* mutant: nothing is sent
SendToNobody(s, c, msg) == s

\* ws.send(msg) on connection c: the message leaves only on an open socket
\* (on a closing or closed one ws drops it, or throws into the caller's catch)
SendTo(s, c, msg) ==
  IF readyState[c] = "OPEN" THEN [s EXCEPT ![c] = Append(@, msg)] ELSE s

\* mutant: the socket is left open
CloseSocketNot(rs) == rs

\* ws.close(): an open socket starts the closing handshake
CloseSocket(rs) == IF rs = "OPEN" THEN "CLOSING" ELSE rs

\* mutant: the new object takes the place of the others of its workspace
AddClientDisplacing(set, cl) ==
  {x \in set : x.workspaceId # cl.workspaceId} \cup {cl}

\* wsClients.add(client): client is a fresh object, so the set grows
AddClient(set, cl) == set \cup {cl}

\* mutant: removal by value: every entry of the workspace of the object goes
DeleteClientByWorkspace(set, c, n) ==
  {cl \in set :
     \A x \in set : (x.socket = c /\ x.n = n) => cl.workspaceId # x.workspaceId}

\* if (client) wsClients.delete(client), for the object client of connection c
DeleteClient(set, c, n) == {cl \in set : ~(cl.socket = c /\ cl.n = n)}

\* ------------------------------------------------------------------ clock
Tick ==
  /\ \E t \in Times : t > now /\ now' = t
  /\ UNCHANGED <<checked, readyState, receiving, client, wsClients,
                 sent, hist, logs, pending, resp>>
  /\ UNCHANGED <<gone, hook>>

\* ----------------------------- POST /api/workspaces/:workspaceId/socket-token
\* mutant: the route does not compare the path with the key's workspace
SocketTokenStatusUnscoped(apiKey, workspaceId) ==
  IF validateApiKey(apiKey) # 0 THEN validateApiKey(apiKey)
  ELSE IF ~getWorkspace(workspaceId) THEN 404
  ELSE 200

\* the status the route answers with
SocketTokenStatus(apiKey, workspaceId) ==
  IF validateApiKey(apiKey) # 0 THEN validateApiKey(apiKey)
  ELSE IF workspaceId # getApiKeyByKey(apiKey) THEN 403
  ELSE IF ~getWorkspace(workspaceId) THEN 404
  ELSE 200

\* what the route has been able to answer a holder of a valid API key so
\* far: the server keeps no record of the tokens it hands out, a token is
\* generateSocketToken(workspaceId) as of the time of some request
IssuableAt ==
  {[token |-> generateSocketToken(getApiKeyByKey(x[1]), x[2]),
    workspaceId |-> getApiKeyByKey(x[1]), iat |-> x[2]] :
     x \in {y \in ApiKeyHeaders \X Times :
              SocketTokenStatus(y[1], getApiKeyByKey(y[1])) = 200}}
Issuable == {i \in IssuableAt : i.iat <= now}

\* ------------------------------------------------------- what clients send
IssuedTokens == {JsStr(i.token) : i \in Issuable}

\* the signature a holder reads out of an issued token
SignatureOf(i) ==
  Hmac(SOCKET_SECRET, StringifyPayload(i.workspaceId, i.iat + TOKEN_EXPIRY))

\* tokens that are no string, no base64 of JSON, or JSON without the fields
MalformedTokens ==
  {JsNum("5"), JsObject, JsStr("garbage"), JsStr(Base64(NotJsonText)),
   JsStr(Base64("5")), JsStr(Base64("null")), JsStr(Base64("{}")),
   JsStr(Base64("{\"data\":'x'}")),
   JsStr(Base64("{\"signature\":\"deadbeef\"}")),
   JsStr(Base64("{\"data\":5,\"signature\":\"deadbeef\"}")),
   JsStr(Base64(StringifyEnvelope(NotJsonText, Hmac(AttackerKey, NotJsonText)))),
   \* a data string that is not JSON under the server's own signature
   JsStr(Base64(StringifyEnvelope(NotJsonText, Hmac(SOCKET_SECRET, NotJsonText))))}

\* well-formed tokens a client can build without SOCKET_SECRET: any payload,
\* with a signature under its own key, a made-up one, or one copied from a
\* token it was issued
SelfSigned ==
  {JsStr(Base64(StringifyEnvelope(d, s))) :
     d \in PayloadTexts,
     s \in {"deadbeef"} \cup {Hmac(AttackerKey, x) : x \in PayloadTexts}}
Respliced ==
  {[token |-> JsStr(Base64(StringifyEnvelope(x[1], SignatureOf(x[2])))),
    iat |-> x[2].iat] :
     x \in {y \in PayloadTexts \X IssuableAt :
              y[1] # StringifyPayload(y[2].workspaceId, y[2].iat + TOKEN_EXPIRY)}}
ForgedTokens ==
  SelfSigned \cup {x.token : x \in {y \in Respliced : y.iat <= now}}

\* a payload naming a workspace and the latest expiry, signed with the
\* client's own key
OwnKeyTokens ==
  {JsStr(Base64(StringifyEnvelope(d, Hmac(AttackerKey, d)))) :
     d \in {StringifyPayload(w, 2 * TOKEN_EXPIRY + MaxEarly + 1) : w \in Workspaces}}

\* the workspace an issued token was issued for
IssuedFor(token) ==
  {i.workspaceId : i \in {j \in Issuable : JsStr(j.token) = token}}

\* client messages that are no subscribe: no JSON, or of another type
OtherMessages ==
  {[json |-> FALSE, type |-> "", token |-> JsUndefined],
   [json |-> TRUE, type |-> "ping", token |-> JsUndefined]}

\* what a subscribe carries in place of a token: nothing, the empty string,
\* a number, a string that decodes to no JSON
BadlyFormedTokens == {JsUndefined, JsStr(""), JsNum("5"), JsStr("garbage")}

\* the client messages the gateway is run on
ClientMessages ==
  OtherMessages
  \cup {[json |-> TRUE, type |-> "subscribe", token |-> t] :
          t \in BadlyFormedTokens \cup OwnKeyTokens \cup IssuedTokens}

\* ----------------------------------------------- the codec applied directly
CodecTokens == MalformedTokens \cup ForgedTokens \cup IssuedTokens

Validate(token) ==
  /\ checked' = [token |-> token, at |-> now,
                 result |-> validateSocketToken(token, now), applied |-> TRUE]
  /\ UNCHANGED <<now, readyState, receiving, client, wsClients,
                 sent, hist, logs, pending, resp>>
  /\ UNCHANGED <<gone, hook>>

\* ------------------------------------------------------------ /ws gateway
\* mutant: the handlers are installed and no greeting is sent
ConnectSilent(c) ==
  /\ readyState[c] = "NONE"
  /\ \A d \in Conns : d < c => readyState[d] # "NONE"
  /\ readyState' = [readyState EXCEPT ![c] = "OPEN"]
  /\ receiving' = [receiving EXCEPT ![c] = TRUE]
  /\ client' = [client EXCEPT ![c] = 0]
  /\ UNCHANGED <<now, checked, wsClients, sent, hist, logs, pending, resp,
                 gone, hook>>

\* wss.on("connection"): the handlers are installed and the greeting is sent
Connect(c) ==
  /\ readyState[c] = "NONE"
  /\ \A d \in Conns : d < c => readyState[d] # "NONE"
  /\ readyState' = [readyState EXCEPT ![c] = "OPEN"]
  /\ receiving' = [receiving EXCEPT ![c] = TRUE]
  /\ client' = [client EXCEPT ![c] = 0]
  /\ sent' = [sent EXCEPT ![c] = Append(@, Connected)]
  /\ UNCHANGED <<now, checked, wsClients, hist, logs, pending, resp>>
  /\ UNCHANGED <<gone, hook>>

\* mutant: every message that parses is taken for a subscribe
IsAnyMessage(m) == TRUE

\* message.type === "subscribe" && message.token
IsSubscribe(m) == m.type = "subscribe" /\ Truthy(m.token)

\* mutant: the result of the validation is not looked at
AcceptsAll(validation) == TRUE

\* the negation of (!validation.valid || !validation.workspaceId)
Accepts(validation) == validation.valid /\ validation.workspaceId # ""

Noted(c, m, rejected) ==
  [hist EXCEPT ![c] =
     [handled |-> @.handled + 1,
      subscribeSeen |-> @.subscribeSeen \/ (m.json /\ m.type = "subscribe"),
      rejected |-> @.rejected \/ rejected,
      presented |-> @.presented \cup IssuedFor(m.token)]]

\* the client messages handled so far
TotalHandled == hist[1].handled + hist[2].handled

\* ws.on("message")
Message(c, m) ==
  /\ readyState[c] \in {"OPEN", "CLOSING"}
  /\ receiving[c]
  /\ TotalHandled < MaxMessages
  /\ IF ~m.json
       THEN \* JSON.parse throws, the catch logs it
            /\ hist' = Noted(c, m, FALSE)
            /\ UNCHANGED <<readyState, client, wsClients, sent>>
       ELSE IF ~IsSubscribe(m)
       THEN /\ hist' = Noted(c, m, FALSE)
            /\ UNCHANGED <<readyState, client, wsClients, sent>>
       ELSE LET validation == validateSocketToken(m.token, now) IN
            IF validation.threw
              THEN \* the handler's catch logs it
                   /\ hist' = Noted(c, m, FALSE)
                   /\ UNCHANGED <<readyState, client, wsClients, sent>>
            ELSE IF ~Accepts(validation)
              THEN /\ sent' = SendTo(sent, c, ErrorMsg)
                   /\ readyState' = [readyState EXCEPT ![c] = CloseSocket(@)]
                   /\ hist' = Noted(c, m, TRUE)
                   /\ UNCHANGED <<client, wsClients>>
            ELSE /\ client' = [client EXCEPT ![c] = @ + 1]
                 /\ wsClients' = AddClient(wsClients,
                      [socket |-> c, n |-> client[c] + 1,
                       workspaceId |-> validation.workspaceId])
                 /\ sent' = SendTo(sent, c, Subscribed(validation.workspaceId))
                 /\ hist' = Noted(c, m, FALSE)
                 /\ UNCHANGED readyState
  /\ UNCHANGED <<now, checked, receiving, logs, pending, resp>>
  /\ UNCHANGED <<gone, hook>>

\* ws.on("close"), of a socket that closes in one step or ends its closing
\* handshake
Close(c) ==
  /\ readyState[c] \in {"OPEN", "CLOSING"}
  /\ readyState' = [readyState EXCEPT ![c] = "CLOSED"]
  /\ receiving' = [receiving EXCEPT ![c] = FALSE]
  /\ wsClients' = DeleteClient(wsClients, c, client[c])
  /\ UNCHANGED <<now, checked, client, sent, hist, logs, pending, resp>>
  /\ gone' = [gone EXCEPT ![c] = TRUE]
  /\ UNCHANGED hook

\* the peer's close frame arrives: ws answers it and the socket is closing,
\* no message follows; "close" is emitted when the connection has ended
PeerClose(c) ==
  /\ readyState[c] = "OPEN"
  /\ receiving[c]
  /\ readyState' = [readyState EXCEPT ![c] = "CLOSING"]
  /\ receiving' = [receiving EXCEPT ![c] = FALSE]
  /\ UNCHANGED <<now, checked, client, wsClients, sent, hist, logs,
                 pending, resp, gone, hook>>

\* ws.on("error"): ws has torn the socket down, "close" follows
Error(c) ==
  /\ readyState[c] \in {"OPEN", "CLOSING"}
  /\ receiving[c]
  /\ readyState' = [readyState EXCEPT ![c] = "CLOSING"]
  /\ receiving' = [receiving EXCEPT ![c] = FALSE]
  /\ wsClients' = DeleteClient(wsClients, c, client[c])
  /\ UNCHANGED <<now, checked, client, sent, hist, logs, pending, resp>>
  /\ gone' = [gone EXCEPT ![c] = TRUE]
  /\ UNCHANGED hook

\* ------------------------------------------------ POST /api/telemetry/ingest
\* request bodies: ok says whether insertTelemetryLogSchema accepts the body
\* once workspaceId is filled in; a body may name a workspace of its own
Bodies == [ok : BOOLEAN, workspaceId : Workspaces \cup {""}, model : {"gpt-4"}]

\* the status the route answers with once validateApiKey and the schema have
\* run: 201 stands for a request that goes on to storage
IngestStatus(apiKey, body) ==
  IF validateApiKey(apiKey) # 0 THEN validateApiKey(apiKey)
  ELSE IF ~body.ok THEN 400
  ELSE 201

\* mutant: a workspaceId in the body wins over the one of the API key
ParsedBodyTrusting(body, workspaceId) ==
  [workspaceId |-> IF body.workspaceId # "" THEN body.workspaceId
                   ELSE workspaceId,
   model |-> body.model]

\* insertTelemetryLogSchema.parse({ ...req.body, workspaceId })
ParsedBody(body, workspaceId) ==
  [workspaceId |-> workspaceId, model |-> body.model]

\* storage.createTelemetryLog(data): the row the insert returns
createTelemetryLog(data, rows) ==
  [id |-> Len(rows) + 1, workspaceId |-> data.workspaceId, model |-> data.model]

\* client.workspaceId === log.workspaceId
Matches(cl, log) == cl.workspaceId = log.workspaceId

\* mutant: every open socket is sent the message
DeliveriesToAll(c, log) == IF readyState[c] = "OPEN" THEN 1 ELSE 0

\* mutant: an entry of the record's workspace whose socket is not open ends
\* the loop for everyone
DeliveriesAborted(c, log) ==
  IF \E cl \in wsClients : Matches(cl, log) /\ readyState[cl.socket] # "OPEN"
    THEN 0
    ELSE Cardinality({cl \in wsClients : cl.socket = c /\ Matches(cl, log)})

\* mutant: the loop does not look at readyState and the frame leaves anyway
DeliveriesWhateverState(c, log) ==
  Cardinality({cl \in wsClients : cl.socket = c /\ Matches(cl, log)})

\* how many times wsClients.forEach sends the message to connection c
Deliveries(c, log) ==
  IF readyState[c] = "OPEN"
    THEN Cardinality({cl \in wsClients : cl.socket = c /\ Matches(cl, log)})
    ELSE 0

Repeat(msg, n) == [i \in 1..n |-> msg]

\* mutant: the message is put in front of what the connection was sent
BroadcastInFront(s, log) ==
  [c \in Conns |->
     IF s[c] = <<>> THEN s[c]
     ELSE <<Head(s[c])>> \o Repeat(NewLog(log), Deliveries(c, log)) \o Tail(s[c])]

\* wsClients.forEach(...): the one serialised message goes to every entry
\* of the record's workspace whose socket is open
Broadcast(s, log) ==
  [c \in Conns |-> s[c] \o Repeat(NewLog(log), Deliveries(c, log))]

\* mutant: send throws whenever it is called
SendThrowsAlways(cl) == TRUE

\* client.socket.send(message) throws: ws.send throws on a socket that has
\* not finished connecting, and queues or drops the frame otherwise
SendThrows(cl) == readyState[cl.socket] = "NONE"

\* the loop throws into the route's catch: some send that the guard lets
\* through throws
BroadcastThrows(log) ==
  \E cl \in wsClients :
    Matches(cl, log) /\ readyState[cl.socket] = "OPEN" /\ SendThrows(cl)

\* after await storage.createTelemetryLog(data): the row is there, the
\* record is broadcast, and 201 with the record is answered (400 from the
\* catch)
Persisted(apiKey, data) ==
  LET log == createTelemetryLog(data, logs) IN
  /\ logs' = Append(logs, log)
  /\ sent' = Broadcast(sent, log)
  /\ resp' = IF BroadcastThrows(log)
               THEN Response("ingest", apiKey, "", 400, "", NoLog)
               ELSE Response("ingest", apiKey, "", 201, "", log)

\* the handler of a request that passes validateApiKey and the schema, when
\* nothing else runs while it awaits storage
Ingest(apiKey, body) ==
  /\ Len(logs) < MaxLogs
  /\ pending = <<>>
  /\ IngestStatus(apiKey, body) = 201
  /\ Persisted(apiKey, ParsedBody(body, getApiKeyByKey(apiKey)))
  /\ UNCHANGED <<now, checked, readyState, receiving, client,
                 wsClients, hist, pending>>
  /\ UNCHANGED <<gone, hook>>

\* the handler up to await storage.createTelemetryLog(data): a request that
\* validateApiKey or the schema refuses is answered at once; req numbers the
\* requests that reach storage in the order they arrive
IngestBegin(apiKey, body) ==
  /\ Len(logs) + Len(pending) < MaxRequests
  /\ IF IngestStatus(apiKey, body) # 201
       THEN /\ resp' = Response("ingest", apiKey, "",
                                IngestStatus(apiKey, body), "", NoLog)
            /\ UNCHANGED pending
       ELSE /\ pending' = Append(pending,
                  [req |-> Len(logs) + Len(pending) + 1, apiKey |-> apiKey,
                   data |-> ParsedBody(body, getApiKeyByKey(apiKey))])
            /\ UNCHANGED resp
  /\ UNCHANGED <<now, checked, readyState, receiving, client,
                 wsClients, sent, hist, logs>>
  /\ UNCHANGED <<gone, hook>>

\* the handler from the moment the insert of the i-th waiting request
\* completes
IngestEnd(i) ==
  /\ i \in 1..Len(pending)
  /\ Persisted(pending[i].apiKey, pending[i].data)
  /\ pending' = [j \in 1..(Len(pending) - 1) |->
                   IF j < i THEN pending[j] ELSE pending[j + 1]]
  /\ UNCHANGED <<now, checked, readyState, receiving, client,
                 wsClients, hist>>
  /\ UNCHANGED <<gone, hook>>

\* ----------------------------- POST /api/workspaces/:workspaceId/socket-token
\* the :workspaceId a request can name
PathWorkspaces == Workspaces \cup {"W9"}

SocketToken(apiKey, workspaceId) ==
  /\ resp' = IF SocketTokenStatus(apiKey, workspaceId) = 200
               THEN Response("socket-token", apiKey, workspaceId, 200,
                             generateSocketToken(workspaceId, now), NoLog)
               ELSE Response("socket-token", apiKey, workspaceId,
                             SocketTokenStatus(apiKey, workspaceId), "", NoLog)
  /\ UNCHANGED <<now, checked, readyState, receiving, client,
                 wsClients, sent, hist, logs, pending>>
  /\ UNCHANGED <<gone, hook>>

\* ------------------------------------------------------- useWebSocketLogs
\* WebSocket.close(): a socket that is connecting or open starts closing
WsClose(state) == IF state \in {"CONNECTING", "OPEN"} THEN "CLOSING" ELSE state

\* the latest run of the effect returned the cleanup function
HasCleanup(h) == h.run > 0 /\ h.enabled /\ h.workspaceId # ""

\* the cleanup function of the latest run
Cleanup(h) ==
  [h EXCEPT !.mounted[h.run] = FALSE,
            !.ws = IF h.wsRef # 0 THEN [@ EXCEPT ![h.wsRef] = WsClose(@)]
                   ELSE @,
            !.wsRef = 0,
            !.isConnected = FALSE]

\* the effect, run for the dependencies workspaceId and enabled, up to the
\* first await that takes time: without a stored API key fetchSocketToken
\* throws at once and the catch of connectWebSocket runs
Effect(h, workspaceId, enabled) ==
  LET r == h.run + 1
      next == [h EXCEPT !.component = "rendered", !.workspaceId = workspaceId,
                        !.enabled = enabled, !.run = r]
  IN IF ~enabled \/ workspaceId = ""
       THEN [next EXCEPT !.isConnected = FALSE]
     ELSE IF localStorage(workspaceId) = ""
       THEN [next EXCEPT !.mounted[r] = TRUE, !.fetch[r] = "nokey",
                         !.isConnected = FALSE]
     ELSE [next EXCEPT !.mounted[r] = TRUE, !.fetch[r] = "inflight",
                       !.attempts[r] = @ + 1]

\* React runs the effect when the component mounts and when workspaceId or
\* enabled has changed: the cleanup of the previous run, then the effect
useEffect(workspaceId, enabled) ==
  /\ hook.component # "unmounted"
  /\ hook.run < MaxRuns
  /\ hook.component = "rendered"
       => <<workspaceId, enabled>> # <<hook.workspaceId, hook.enabled>>
  /\ hook' = Effect(IF HasCleanup(hook) THEN Cleanup(hook) ELSE hook,
                    workspaceId, enabled)
  /\ UNCHANGED <<now, checked, readyState, receiving, client, wsClients,
                 sent, hist, logs, pending, resp, gone>>

\* the component unmounts: React runs the cleanup of the latest run
Unmount ==
  /\ hook.component = "rendered"
  /\ hook' = [(IF HasCleanup(hook) THEN Cleanup(hook) ELSE hook)
                EXCEPT !.component = "unmounted"]
  /\ UNCHANGED <<now, checked, readyState, receiving, client, wsClients,
                 sent, hist, logs, pending, resp, gone>>

\* mutant: the socket is made after a refused token request too
FetchedOpeningAnyway(h, r, ok) ==
  IF ~h.mounted[r]
    THEN [h EXCEPT !.fetch[r] = IF ok THEN "stale" ELSE "failed"]
    ELSE [h EXCEPT !.fetch[r] = IF ok THEN "token" ELSE "failed",
                   !.ws[r] = "CONNECTING", !.wsRef = r]

\* mutant: the run does not look at mounted once the token is there
FetchedUnguarded(h, r, ok) ==
  IF ~ok
    THEN [h EXCEPT !.fetch[r] = "failed",
                   !.isConnected = IF h.mounted[r] THEN FALSE ELSE @]
    ELSE [h EXCEPT !.fetch[r] = IF h.mounted[r] THEN "token" ELSE "stale",
                   !.ws[r] = "CONNECTING", !.wsRef = r]

\* connectWebSocket of run r from the moment fetchSocketToken settles; ok:
\* the token endpoint answered with a success status
Fetched(h, r, ok) ==
  IF ~ok
    THEN \* fetchSocketToken throws, the catch runs
         [h EXCEPT !.fetch[r] = "failed",
                   !.isConnected = IF h.mounted[r] THEN FALSE ELSE @]
  ELSE IF ~h.mounted[r]
    THEN [h EXCEPT !.fetch[r] = "stale"]
  ELSE [h EXCEPT !.fetch[r] = "token", !.ws[r] = "CONNECTING", !.wsRef = r]

connectWebSocket(r, ok) ==
  /\ hook.fetch[r] = "inflight"
  /\ hook' = Fetched(hook, r, ok)
  /\ UNCHANGED <<now, checked, readyState, receiving, client, wsClients,
                 sent, hist, logs, pending, resp, gone>>

\* ws.onopen of the socket of run r: the subscribe message is sent
onopen(r) ==
  /\ hook.ws[r] = "CONNECTING"
  /\ hook' = [hook EXCEPT !.ws[r] = "OPEN", !.subscribeSent[r] = TRUE]
  /\ UNCHANGED <<now, checked, readyState, receiving, client, wsClients,
                 sent, hist, logs, pending, resp, gone>>

\* the body of ws.onmessage of the socket of run r
Received(h, r, message) ==
  IF ~message.json
    THEN h  \* JSON.parse throws, the catch logs it
  ELSE IF message.type = "subscribed"
    THEN [h EXCEPT !.subscribed[r] = TRUE,
                   !.isConnected = IF h.mounted[r] THEN TRUE ELSE @]
  ELSE IF message.type = "error"
    THEN [h EXCEPT !.ws[r] = WsClose(@)]
  ELSE IF message.type = "new_log" /\ message.data
    THEN [h EXCEPT !.cached = @ + 1]
  ELSE h

\* ws.onmessage: the browser delivers messages on an open socket only
onmessage(r, message) ==
  /\ hook.ws[r] = "OPEN"
  /\ (message.type = "new_log" /\ message.data) => hook.cached < MaxCached
  /\ hook' = Received(hook, r, message)
  /\ UNCHANGED <<now, checked, readyState, receiving, client, wsClients,
                 sent, hist, logs, pending, resp, gone>>

\* mutant: the handlers leave the connected state as it is
DisconnectedSilently(h, r) == [h EXCEPT !.ws[r] = "CLOSED"]

\* the body of ws.onclose, and of ws.onerror, of the socket of run r
Disconnected(h, r) ==
  [h EXCEPT !.ws[r] = "CLOSED",
            !.isConnected = IF h.mounted[r] THEN FALSE ELSE @]

\* the connection of the socket of run r fails: the browser sets CLOSED and
\* fires error and then close
onerror(r) ==
  /\ hook.ws[r] \in {"CONNECTING", "OPEN", "CLOSING"}
  /\ hook' = Disconnected(Disconnected(hook, r), r)
  /\ UNCHANGED <<now, checked, readyState, receiving, client, wsClients,
                 sent, hist, logs, pending, resp, gone>>

\* ws.onclose: the connection of the socket of run r has ended, closed by
\* the peer or by close() of the client
onclose(r) ==
  /\ hook.ws[r] \in {"OPEN", "CLOSING"}
  /\ hook' = Disconnected(hook, r)
  /\ UNCHANGED <<now, checked, readyState, receiving, client, wsClients,
                 sent, hist, logs, pending, resp, gone>>

\* the steps of the hook that neither React nor the user starts
HookStep ==
  \/ \E r \in Runs : \E ok \in BOOLEAN : connectWebSocket(r, ok)
  \/ \E r \in Runs : onopen(r)
  \/ \E r \in Runs : \E m \in ServerFrames : onmessage(r, m)
  \/ \E r \in Runs : onerror(r)
  \/ \E r \in Runs : onclose(r)

\* the hook in a browser: the component renders with one workspaceId and
\* enabled after another and unmounts, requests settle, socket events fire
NextClient ==
  \/ \E w \in ClientWorkspaces : \E e \in BOOLEAN : useEffect(w, e)
  \/ Unmount
  \/ HookStep

SpecClient == Init /\ [][NextClient]_vars

\* the browser settles every request and ends every connection it began to
\* close or that the peer closes; nothing has the component render again
SpecClientLive == SpecClient /\ WF_vars(HookStep)

Next ==
  \/ Tick
  \/ \E c \in Conns : Connect(c)
  \/ \E c \in Conns : \E m \in ClientMessages : Message(c, m)
  \/ \E c \in Conns : Close(c)
  \/ \E c \in Conns : Error(c)
  \/ \E k \in ApiKeyHeaders, b \in Bodies : Ingest(k, b)

Spec == Init /\ [][Next]_vars

\* the codec on its own: time passes and validateSocketToken is applied to
\* what clients can present
NextCodec ==
  \/ Tick
  \/ \E t \in CodecTokens : Validate(t)

SpecCodec == Init /\ [][NextCodec]_vars

\* the gateway in finer steps: ingest requests overlap, other handlers run
\* while a request awaits storage (the requests are those that reach
\* storage), and a socket is seen closing before its close event
NextHttp ==
  \/ \E c \in Conns : Connect(c)
  \/ \E c \in Conns : \E m \in ClientMessages : Message(c, m)
  \/ \E c \in Conns : PeerClose(c)
  \/ \E c \in Conns : Close(c)
  \/ \E k \in ApiKeyHeaders, b \in Bodies :
       IngestStatus(k, b) = 201 /\ IngestBegin(k, b)
  \/ \E i \in 1..MaxRequests : IngestEnd(i)

SpecHttp == Init /\ [][NextHttp]_vars

\* the routes up to storage: time passes, tokens are asked for, ingest
\* requests are refused, and the token of the latest answer is presented to
\* validateSocketToken
NextToken ==
  \/ Tick
  \/ \E k \in ApiKeyHeaders, w \in PathWorkspaces : SocketToken(k, w)
  \/ \E k \in ApiKeyHeaders, b \in Bodies :
       IngestStatus(k, b) # 201 /\ IngestBegin(k, b)
  \/ resp.token # "" /\ Validate(JsStr(resp.token))

SpecToken == Init /\ [][NextToken]_vars

\* the ingest route in full next to the gateway: every request, refused or
\* not, while connections are accepted and subscribe
NextIngest ==
  \/ \E c \in Conns : Connect(c)
  \/ \E c \in Conns : \E m \in ClientMessages : Message(c, m)
  \/ \E k \in ApiKeyHeaders, b \in Bodies : IngestBegin(k, b)
  \/ \E i \in 1..MaxRequests : IngestEnd(i)

SpecIngest == Init /\ [][NextIngest]_vars

\* the gateway with the one progress ws guarantees: a closing handshake that
\* was started ends (by the peer's close frame or by ws's own timeout) and
\* "close" is emitted; a socket left open may stay open for ever
SpecLive ==
  Spec /\ \A c \in Conns : WF_vars(readyState[c] = "CLOSING" /\ Close(c))

\* ================================================================= claims
\* connection c has been sent the confirmation of a subscription to w
Authenticated(c, w) == \E i \in 1..Len(sent[c]) : sent[c][i] = Subscribed(w)

\* the positions of sent[c] holding a message of the given type
Of(c, type) == {i \in 1..Len(sent[c]) : sent[c][i].type = type}

AllIssuedTokens == {JsStr(i.token) : i \in IssuableAt}

\* C1: tenant isolation of the broadcast: a connection that authenticated
\* for tenant T2 is never sent, afterwards, the new_log of a record whose
\* tenant is another T1.
C1_TenantIsolation ==
  \A c \in Conns : \A i \in Of(c, "subscribed") : \A j \in Of(c, "new_log") :
    i < j => sent[c][j].data.workspaceId = sent[c][i].workspaceId

\* C2: fan-out completeness: the step that persists a record sends its new_log
\* to every connection that is open and authenticated for the record's
\* tenant, and handling a client message never takes an entry out of the
\* registry (no subscription displaces another).
C2_FanOut ==
  [][/\ Len(logs') = Len(logs) + 1 =>
          \A c \in Conns :
            (readyState[c] = "OPEN"
               /\ Authenticated(c, logs'[Len(logs')].workspaceId))
            => /\ Len(sent'[c]) > Len(sent[c])
               /\ sent'[c][Len(sent'[c])] = NewLog(logs'[Len(logs')])
     /\ hist' # hist => wsClients \subseteq wsClients']_vars

\* two open connections of one tenant have both been sent the same record
C2_Witness ==
  \E c \in Conns, d \in Conns :
    /\ c # d
    /\ readyState[c] = "OPEN" /\ readyState[d] = "OPEN"
    /\ \E i \in Of(c, "new_log") : \E j \in Of(d, "new_log") :
         sent[c][i] = sent[d][j]

\* C3: a connection that never sent a subscribe message is never sent a
\* new_log, whatever else it sent and however many records were persisted.
C3_NeverSubscribed ==
  \A c \in Conns : ~hist[c].subscribeSeen => Of(c, "new_log") = {}

\* an open connection that sent only other messages stays without new_log
\* while another connection is sent one
C3_Witness ==
  \E c \in Conns, d \in Conns :
    /\ readyState[c] = "OPEN" /\ hist[c].handled > 0 /\ ~hist[c].subscribeSeen
    /\ Of(d, "new_log") # {}

RejectedOnce(c) ==
  hist[c].rejected =>
    /\ readyState[c] \in {"CLOSING", "CLOSED"}
    /\ Cardinality(Of(c, "error")) = 1
    /\ \A i \in Of(c, "error") : \A j \in Of(c, "subscribed") : j < i

\* C4: once the handler has rejected a subscribe of a connection, the
\* connection has been sent exactly one error message, its socket is no
\* longer open (close was called), and no subscribed message follows the
\* error, whatever the client sends while the socket is closing; and in the
\* end the socket of every rejected connection is closed for good.
C4_RejectedOnce ==
  /\ [](\A c \in Conns : RejectedOnce(c))
  /\ <>[](\A c \in Conns : hist[c].rejected => readyState[c] = "CLOSED")

\* a rejected connection that had a further subscribe handled while its
\* socket was closing, was sent no confirmation, and is now closed
C4_Witness ==
  \E c \in Conns :
    /\ hist[c].rejected
    /\ hist[c].handled >= 2
    /\ hist[c].presented # {}
    /\ Of(c, "subscribed") = {}
    /\ readyState[c] = "CLOSED"

\* C5: an issued token applied at or after its expiry instant (issue time +
\* 24 h, the instant itself included) is invalid.
C5_ExpiryBoundary ==
  \A i \in IssuableAt :
    (checked.applied /\ checked.token = JsStr(i.token)
       /\ checked.at >= i.iat + TOKEN_EXPIRY)
    => ~checked.result.valid

\* C6: validateSocketToken(generateSocketToken(X)) applied before the expiry
\* instant is valid for X, and an issued token never validates for another
\* workspace.
C6_RoundTrip ==
  \A i \in IssuableAt :
    (checked.applied /\ checked.token = JsStr(i.token)) =>
      /\ checked.at < i.iat + TOKEN_EXPIRY =>
           checked.result.valid /\ checked.result.workspaceId = i.workspaceId
      /\ checked.result.valid => checked.result.workspaceId = i.workspaceId

\* an issued token is applied in the last millisecond of its life
C6_Witness ==
  \E i \in IssuableAt :
    /\ checked.applied /\ checked.token = JsStr(i.token)
    /\ checked.at = i.iat + TOKEN_EXPIRY - 1
    /\ checked.result = Valid(i.workspaceId)

\* C7: tamper evidence: every token that is not one generateSocketToken
\* produced (another workspace or expiry in the payload, another signature)
\* and that was built without SOCKET_SECRET is invalid.
C7_TamperEvident ==
  (checked.applied /\ checked.token \notin AllIssuedTokens)
    => ~checked.result.valid

\* a payload other than the one an issued signature was computed over, under
\* that signature, has been refused
C7_Witness ==
  /\ checked.applied
  /\ checked.token \in {x.token : x \in Respliced}
  /\ ~checked.result.valid

\* C8: validateSocketToken is total: on every malformed token it returns the
\* invalid result, and no exception leaves it.
C8_Total ==
  (checked.applied /\ checked.token \in MalformedTokens)
    => checked.result = Invalid

\* the body threw and the function still returned invalid
C8_Witness ==
  /\ checked.applied
  /\ checked.token \in MalformedTokens
  /\ ValidateTry(checked.token, checked.at).threw
  /\ checked.result = Invalid

\* C9: registry invariant: every entry of wsClients carries a non-empty
\* workspaceId, which is the workspace of an issued token its connection
\* presented in a subscribe; a connection that is still awaiting
\* authentication has no entry.
C9_Registry ==
  \A cl \in wsClients :
    /\ cl.workspaceId # ""
    /\ hist[cl.socket].subscribeSeen
    /\ cl.workspaceId \in hist[cl.socket].presented

\* one connection is registered while another one, open and having sent
\* messages, is not
C9_Witness ==
  \E c \in Conns, d \in Conns :
    /\ \E cl \in wsClients : cl.socket = c
    /\ readyState[d] = "OPEN" /\ hist[d].handled > 0
    /\ ~\E cl \in wsClients : cl.socket = d

\* C10: from the moment the handler rejects a connection (error sent, close
\* called) the registry holds no entry for that connection.
C10_NoEntryForRejected ==
  \A c \in Conns : hist[c].rejected => ~\E cl \in wsClients : cl.socket = c

\* C11: cleanup on disconnect: once the close (or error) event of a
\* connection has been handled, the registry holds no entry whose socket is
\* that connection, whatever the connection sent before.
C11_CleanupOnDisconnect ==
  \A c \in Conns : gone[c] => ~\E cl \in wsClients : cl.socket = c

\* the new_log messages connection c was sent for the record log
NewLogsOf(c, log) == {i \in Of(c, "new_log") : sent[c][i].data.id = log.id}

\* C12: no duplicate delivery: no connection is sent two new_log messages
\* for one persisted record.
C12_NoDuplicateDelivery ==
  \A c \in Conns : \A k \in 1..Len(logs) :
    Cardinality(NewLogsOf(c, logs[k])) <= 1

\* C13: payload equality: the data of every new_log message a connection was
\* sent is one of the records storage returned, field for field, and two
\* messages for one record, at whatever connections, are the same message.
C13_PayloadEquality ==
  /\ \A c \in Conns : \A i \in Of(c, "new_log") :
       \E k \in 1..Len(logs) : sent[c][i].data = logs[k]
  /\ \A c, d \in Conns : \A i \in Of(c, "new_log") : \A j \in Of(d, "new_log") :
       sent[c][i].data.id = sent[d][j].data.id => sent[c][i] = sent[d][j]

\* two connections were each sent the second of two records
C13_Witness ==
  /\ Len(logs) = 2
  /\ \A c \in Conns : NewLogsOf(c, logs[2]) # {}

\* the place of a record in the order in which the inserts completed
LogIndex(data) == CHOOSE k \in 1..Len(logs) : logs[k] = data

\* C14: per-tenant ordering: whatever the overlap of the ingest requests,
\* the new_log messages a connection was sent for one tenant are in the order
\* in which the inserts completed, and two connections that were both sent
\* two records were sent them in the same order.
C14_PerTenantOrdering ==
  /\ \A c \in Conns : \A i, j \in Of(c, "new_log") :
       (i < j /\ sent[c][i].data.workspaceId = sent[c][j].data.workspaceId)
         => LogIndex(sent[c][i].data) <= LogIndex(sent[c][j].data)
  /\ \A c, d \in Conns :
       \A i1, i2 \in Of(c, "new_log") : \A j1, j2 \in Of(d, "new_log") :
         (/\ sent[c][i1].data = sent[d][j1].data
          /\ sent[c][i2].data = sent[d][j2].data
          /\ sent[c][i1].data # sent[c][i2].data
          /\ i1 < i2)
           => j1 < j2

\* two requests for one tenant overlapped: the one that arrived second was
\* stored first and its record was sent to both connections, while the one
\* that arrived first still awaits storage
C14_Witness ==
  /\ Len(pending) = 1 /\ pending[1].req = 1
  /\ Len(logs) = 1 /\ logs[1].workspaceId = pending[1].data.workspaceId
  /\ \A c \in Conns : NewLogsOf(c, logs[1]) # {}

C17_PermissivePreAuth ==
  [][\A c \in Conns : \A m \in OtherMessages :
       (/\ Of(c, "subscribed") = {}
        /\ hist'[c].handled = hist[c].handled + 1
        /\ Message(c, m))
         => /\ sent' = sent
            /\ readyState' = readyState
            /\ receiving' = receiving
            /\ wsClients' = wsClients
            /\ client' = client]_vars

\* a connection that had two messages handled and was sent the greeting and
\* one confirmation, nothing else: the other message was ignored
C17_Witness ==
  \E c \in Conns :
    /\ hist[c].handled = 2
    /\ readyState[c] = "OPEN"
    /\ Len(sent[c]) = 2
    /\ Of(c, "subscribed") = {2}
    /\ Cardinality({cl \in wsClients : cl.socket = c}) = 1

\* C18: a subscribe whose token is missing, empty, not a string or not
\* decodable, handled on an open connection, is answered like an invalid
\* token: the error message is sent and the socket is closed.
C18_MalformedSubscribeRejected ==
  [][\A c \in Conns : \A t \in BadlyFormedTokens :
       (/\ readyState[c] = "OPEN"
        /\ hist'[c].handled = hist[c].handled + 1
        /\ Message(c, [json |-> TRUE, type |-> "subscribe", token |-> t]))
         => /\ sent'[c] = Append(sent[c], ErrorMsg)
            /\ readyState'[c] = "CLOSING"]_vars

\* the workspaceId in the payload of a token the route returned
WorkspaceIn(token) ==
  ParsePayload(ParseEnvelope(Base64Decode(token)).data.v).workspaceId

\* C19: token issuance is scoped to the API key's tenant: the socket-token
\* route answers 200 with a token exactly when the key is valid, its
\* workspace is the one of the path and that workspace exists; the token
\* carries that workspaceId; every other request is answered 401, 403 or 404
\* without a token.
C19_IssuanceScoped ==
  resp.route = "socket-token" =>
    /\ resp.status \in {200, 401, 403, 404}
    /\ resp.status = 200 <=>
         /\ getApiKeyByKey(resp.apiKey) = resp.workspaceId
         /\ resp.workspaceId \in Workspaces
    /\ resp.status = 200 => WorkspaceIn(resp.token) = resp.workspaceId
    /\ resp.status # 200 => resp.token = ""
    /\ (checked.applied /\ resp.token # "" /\ checked.token = JsStr(resp.token)
          /\ checked.result.valid)
         => checked.result.workspaceId = getApiKeyByKey(resp.apiKey)

\* a token was returned and validateSocketToken accepted it
C19_Witness ==
  /\ resp.route = "socket-token" /\ resp.status = 200
  /\ checked.applied /\ checked.token = JsStr(resp.token)
  /\ checked.result.valid

\* C20: one tenant per connection: every new_log a connection was sent
\* carries the workspace of the first confirmation the connection was sent,
\* whatever the connection subscribed to later.
C20_OneTenantPerConnection ==
  \A c \in Conns : \A j \in Of(c, "new_log") :
    \A i \in Of(c, "subscribed") :
      (\A k \in Of(c, "subscribed") : i <= k)
        => sent[c][j].data.workspaceId = sent[c][i].workspaceId

\* the registry entries of connection c
EntriesOf(set, c) == {cl \in set : cl.socket = c}

\* C22: handshake success: when a subscribe carrying a token that validates
\* for tenant T is handled on an open connection that is not authenticated,
\* that one handler run adds one registry entry {connection, T} and sends
\* the connection one subscribed message with workspaceId T, nothing else.
C22_HandshakeSuccess ==
  [][\A c \in Conns :
       (/\ hist'[c].handled = hist[c].handled + 1
        /\ readyState[c] = "OPEN"
        /\ EntriesOf(wsClients, c) = {} /\ Of(c, "subscribed") = {})
         => \A i \in IssuableAt :
              LET t == JsStr(i.token)
                  validation == validateSocketToken(t, now)
              IN (/\ i.iat <= now
                  /\ i.workspaceId \in hist'[c].presented
                  /\ validation.valid
                  /\ Message(c, [json |-> TRUE, type |-> "subscribe",
                                 token |-> t]))
                   => /\ \E cl \in wsClients' :
                           /\ wsClients' = wsClients \cup {cl}
                           /\ cl.socket = c
                           /\ cl.workspaceId = validation.workspaceId
                      /\ sent'[c] = Append(sent[c],
                            [type |-> "subscribed",
                             workspaceId |-> validation.workspaceId])
                      /\ \A d \in Conns \ {c} : sent'[d] = sent[d]]_vars

\* a connection whose first message was a subscribe that was confirmed
C22_Witness ==
  \E c \in Conns : \E w \in Workspaces :
    /\ hist[c].handled = 1
    /\ sent[c] = <<Connected, Subscribed(w)>>
    /\ \E cl \in wsClients : cl.socket = c /\ cl.workspaceId = w
    /\ Cardinality(EntriesOf(wsClients, c)) = 1

\* C23: uniqueness by connection identity: the registry holds at most one
\* entry per connection, also after a second successful subscribe on one
\* socket.
C23_OneEntryPerConnection ==
  \A c \in Conns : Cardinality(EntriesOf(wsClients, c)) <= 1

\* C24: the greeting comes first: a connection that was accepted has been
\* sent connected as its first message, before any client message was
\* handled, and exactly once; a connection not yet accepted was sent nothing.
C24_GreetingFirst ==
  \A c \in Conns :
    IF readyState[c] = "NONE"
      THEN sent[c] = <<>>
      ELSE /\ Len(sent[c]) >= 1
           /\ sent[c][1].type = "connected"
           /\ Of(c, "connected") = {1}

\* a connection that was greeted before it sent anything, and received the
\* error of its rejected subscribe after the greeting
C24_Witness ==
  \E c \in Conns :
    /\ hist[c].handled = 1 /\ hist[c].rejected
    /\ Len(sent[c]) = 2
    /\ sent[c][1].type = "connected" /\ sent[c][2].type = "error"

\* C25: removal is by identity and tolerant of a second removal: the close
\* or the error handler of connection c, run once, or the close handler after
\* the error handler, or for a connection that never authenticated, leaves
\* the entries of every other connection as they are, adds nothing, removes
\* the entry its handlers hold when there is one, and runs to its end.
C25_RemovalByIdentity ==
  [][\A c \in Conns :
       (gone'[c] /\ readyState'[c] # readyState[c])
         => /\ wsClients' \subseteq wsClients
            /\ \A d \in Conns \ {c} :
                 EntriesOf(wsClients', d) = EntriesOf(wsClients, d)
            /\ \A cl \in wsClients' : ~(cl.socket = c /\ cl.n = client[c])
            /\ gone[c] => wsClients' = wsClients]_vars

\* the error and then the close handler have run for a connection that was
\* registered for the workspace for which another connection still is
C25_Witness ==
  \E c, d \in Conns :
    /\ c # d
    /\ gone[c] /\ readyState[c] = "CLOSED" /\ ~gone[d]
    /\ EntriesOf(wsClients, c) = {}
    /\ \E w \in Workspaces :
         /\ Authenticated(c, w)
         /\ \E cl \in EntriesOf(wsClients, d) : cl.workspaceId = w

\* C28: confirmation precedes data: every new_log a connection was sent
\* comes after a subscribed for the record's tenant on that connection.
C28_ConfirmationPrecedesData ==
  \A c \in Conns : \A j \in Of(c, "new_log") :
    \E i \in Of(c, "subscribed") :
      i < j /\ sent[c][i].workspaceId = sent[c][j].data.workspaceId

\* a request was awaiting storage when the connection subscribed, and its
\* record reached the connection after the confirmation
C28_Witness ==
  \E c \in Conns :
    /\ Len(logs) = 1 /\ pending # <<>>
    /\ Len(sent[c]) = 3
    /\ sent[c][2] = Subscribed(logs[1].workspaceId)
    /\ sent[c][3].type = "new_log"

\* the connections with an open socket registered for workspace w
OpenFor(w) ==
  {c \in Conns : readyState[c] = "OPEN" /\
                 \E cl \in wsClients : cl.socket = c /\ cl.workspaceId = w}

\* C29: the tenant of an ingested record comes from the API key only: for
\* every body, one that names another workspace included, the data handed to
\* storage, the row persisted and the connections the record is sent to are
\* those of the workspace the presented key resolves to; a request without a
\* valid key is answered 401, persists nothing and sends nothing.
C29_TenantFromApiKey ==
  [][/\ (Len(logs') = Len(logs) /\ hist' = hist /\ readyState' = readyState)
          => \A k \in ApiKeyHeaders : \A b \in Bodies :
               IngestBegin(k, b)
                 => IF getApiKeyByKey(k) = ""
                      THEN /\ resp'.status = 401
                           /\ logs' = logs /\ pending' = pending
                           /\ sent' = sent
                      ELSE /\ sent' = sent /\ logs' = logs
                           /\ b.ok => /\ Len(pending') = Len(pending) + 1
                                       /\ pending'[Len(pending')].data.workspaceId
                                            = getApiKeyByKey(k)
     /\ Len(logs') = Len(logs) + 1
          => \A i \in 1..Len(pending) :
               IngestEnd(i)
                 => LET w == getApiKeyByKey(pending[i].apiKey) IN
                    /\ w \in Workspaces
                    /\ logs'[Len(logs')].workspaceId = w
                    /\ \A c \in Conns :
                         /\ sent'[c] # sent[c] => c \in OpenFor(w)
                         /\ c \in OpenFor(w)
                              => /\ Len(sent'[c]) > Len(sent[c])
                                 /\ sent'[c][Len(sent'[c])].type = "new_log"
                                 /\ sent'[c][Len(sent'[c])].data.workspaceId = w
                         /\ \A j \in (Len(sent[c]) + 1)..Len(sent'[c]) :
                              sent'[c][j] = NewLog(logs'[Len(logs')])]_vars

\* a request with the key of one workspace was persisted and answered 201
\* while connections of both workspaces were open: the record went to the
\* connection of the key's workspace and not to the other
C29_Witness ==
  \E c, d \in Conns : \E w, v \in Workspaces :
    /\ c # d /\ w # v
    /\ c \in OpenFor(w) /\ d \in OpenFor(v)
    /\ resp.status = 201 /\ resp.log.workspaceId = w
    /\ getApiKeyByKey(resp.apiKey) = w
    /\ NewLogsOf(c, resp.log) # {} /\ Of(d, "new_log") = {}

\* the sockets of the hook that are connecting or open
LiveSockets == {r \in Runs : hook.ws[r] \in {"CONNECTING", "OPEN"}}

\* C21: automatic reconnection in the client: when the socket of a run of
\* the effect has closed while that run is still mounted (the hook enabled,
\* with a workspace and an API key), the run eventually makes a new
\* connection attempt, unless the hook is unmounted or re-run first.
C21_AutomaticReconnection ==
  \A r \in Runs :
    [](hook.ws[r] = "CLOSED" /\ hook.mounted[r]
         => <>(hook.attempts[r] >= 2 \/ ~hook.mounted[r]))

\* C26: a socket only after a token: a run of the effect that found no API
\* key made no token request, one whose token request was refused made that
\* one request and no other; neither has a socket, and while it is the
\* latest run the hook says not connected.
C26_NoSocketWithoutToken ==
  \A r \in Runs :
    hook.fetch[r] \in {"nokey", "failed"}
      => /\ hook.ws[r] = "NONE" /\ hook.wsRef # r
         /\ ~hook.subscribeSent[r]
         /\ hook.attempts[r] = IF hook.fetch[r] = "nokey" THEN 0 ELSE 1
         /\ r = hook.run => ~hook.isConnected

\* a run without API key, and after it a run still mounted whose token
\* request was refused
C26_Witness ==
  \E q, r \in Runs :
    /\ q < r /\ r = hook.run
    /\ hook.fetch[q] = "nokey"
    /\ hook.fetch[r] = "failed" /\ hook.mounted[r]

\* C27: the connected state of the client: isConnected is true only while
\* the socket of the latest run, still mounted, has received subscribed and
\* has not closed; subscribed on a mounted run sets it, the close or the
\* failure of the current socket clears it, an error message makes the
\* client close the socket, and a socket that is closing ends closed, the
\* hook not connected.
C27_ConnectedState ==
  /\ [](hook.isConnected
          => /\ hook.component = "rendered"
             /\ hook.run \in Runs
             /\ hook.mounted[hook.run] /\ hook.wsRef = hook.run
             /\ hook.subscribed[hook.run]
             /\ hook.ws[hook.run] \in {"OPEN", "CLOSING"})
  /\ [][\A r \in Runs :
          /\ (hook.mounted[r] /\
               onmessage(r, [json |-> TRUE, type |-> "subscribed",
                             data |-> FALSE]))
               => hook'.isConnected
          /\ onmessage(r, [json |-> TRUE, type |-> "error", data |-> FALSE])
               => hook'.ws[r] = "CLOSING"
          /\ (hook.wsRef = r /\ (onclose(r) \/ onerror(r)))
               => ~hook'.isConnected]_vars
  /\ \A r \in Runs :
       (hook.ws[r] = "CLOSING" /\ hook.wsRef = r)
         ~> (hook.ws[r] = "CLOSED" /\ (hook.wsRef = r => ~hook.isConnected))

\* the hook was connected and is not any more: its socket received
\* subscribed and then closed while the run is still mounted
C27_Witness ==
  \E r \in Runs :
    /\ hook.mounted[r] /\ hook.wsRef = r
    /\ hook.subscribed[r] /\ hook.ws[r] = "CLOSED"
    /\ ~hook.isConnected

\* C30: no socket leak in the client: a run of the effect that was cleaned
\* up while its token request was in flight opens no socket, and a socket
\* that is connecting or open belongs to the latest run, which is mounted
\* and has it in wsRef: there is at most one.
C30_NoSocketLeak ==
  /\ \A r \in Runs : hook.fetch[r] = "stale" => hook.ws[r] = "NONE"
  /\ \A r \in LiveSockets :
       /\ hook.component = "rendered"
       /\ r = hook.run /\ hook.mounted[r] /\ hook.wsRef = r
  /\ Cardinality(LiveSockets) <= 1

\* the token of a run arrived after its cleanup, the socket of a later
\* run was closed by its cleanup, and the latest run has a socket
C30_Witness ==
  \E p, q, r \in Runs :
    /\ p < q /\ q < r
    /\ hook.fetch[p] = "stale"
    /\ hook.subscribeSent[q] /\ ~hook.mounted[q]
    /\ hook.ws[q] \in {"CLOSING", "CLOSED"}
    /\ LiveSockets = {r}

====
